---- MODULE Spec2Model ----
(***************************************************************************)
(* CypherBeam (gallery/cypher-beam/app.js): live speech transcript,        *)
(* debounced translation dispatch and the capped emoji/text particle pool. *)
(*                                                                         *)
(* JavaScript runs every callback to completion, so each event handler and *)
(* each timer callback is one step.  The word scan of                      *)
(* processWordsForEmoji is unrolled into one step per loop iteration; while*)
(* a scan is in progress (pc # "idle") no other callback is enabled.       *)
(*                                                                         *)
(* Time is kept as the                                                     *)
(* remaining delay (ms) of every pending setTimeout; timers run in order of*)
(* expiry, and among equal expiries in order of creation.                  *)
(***************************************************************************)
EXTENDS Integers, Sequences, FiniteSets, TLC

VARIABLES
    isListening,        \* let isListening
    sourceLang,         \* let sourceLang
    langSelect,         \* langSelect.value
    recState,           \* the SpeechRecognition object: "idle", "running", "stopping"
    recLang,            \* recognition.lang
    recRunLang,         \* language the running recognition session was started with
    finalTranscript,    \* let finalTranscript
    lastTranslatedText, \* let lastTranslatedText
    translateTimer,     \* let translateTimer: handle of the last debounce timer, 0 = null
    emojiCount,         \* let emojiCount
    positiveScore,      \* let positiveScore
    negativeScore,      \* let negativeScore
    zone,               \* children of #emoji-zone, in document order
    zoneClasses,        \* emojiZone.classList (mood classes)
    translationCards,   \* const translationCards: lang -> its .translation-text element
    timers,             \* pending setTimeout callbacks, ordered by expiry
    nextSpan,           \* number of particle spans created so far
    nextHandle,         \* number of debounce timers created so far
    batches,            \* every translateAll call so far, with its per-target requests
    pc,                 \* position inside handleResult: "idle", "combos", "words"
    scanCombos,         \* phrase keys still to be tested by the running scan
    scanWords,          \* tokens still to be processed by the running scan
    lastSpawn,          \* the last addEmojiParticle/addTextParticle call and its effect
    lastTimer,          \* the last particle timer callback run, and whether its span was attached
    budget              \* environment events still to come (bounds the exploration)

vars == <<isListening, sourceLang, langSelect, recState, recLang, recRunLang,
          finalTranscript,
          lastTranslatedText, translateTimer, emojiCount, positiveScore,
          negativeScore, zone, zoneClasses, translationCards, timers, nextSpan,
          nextHandle, batches, pc, scanCombos, scanWords, lastSpawn, lastTimer,
          budget>>

recVars  == <<isListening, recState, recLang, recRunLang>>
langVars == <<sourceLang, langSelect>>
textVars == <<finalTranscript, lastTranslatedText, translateTimer, nextHandle>>
moodVars == <<positiveScore, negativeScore, zoneClasses>>
partVars == <<emojiCount, zone, nextSpan>>
scanVars == <<pc, scanCombos, scanWords>>
logVars  == <<lastSpawn, lastTimer>>

----------------------------------------------------------------------------
(* CONFIG *)

TRANSLATE_DEBOUNCE_MS == 800
MAX_EMOJIS == 40
EMOJI_FADE_AFTER == 30000
TEXT_FADE_AFTER == 10000
FADE_DURATION == 1000
FLOAT_AFTER == 600
RESTART_AFTER == 200
TRIM_LENGTH == 200

ALL_LANGS == <<"de", "en", "fr", "es">>

LangSet == {ALL_LANGS[i] : i \in 1..Len(ALL_LANGS)}

LANG_CONFIG ==
    [l \in LangSet |->
        CASE l = "de" -> [speech |-> "de-DE"]
          [] l = "en" -> [speech |-> "en-US"]
          [] l = "fr" -> [speech |-> "fr-FR"]
          [] l = "es" -> [speech |-> "es-ES"]]

----------------------------------------------------------------------------
(* Bounds of the exploration *)

MaxResults == 1       \* speech results with a short finalized text
MaxClears == 1        \* presses of the C key
MaxPlain == 2         \* speech results without emoji content, per session
MaxMoodResults == 2   \* speech results with sentiment words, per session
MaxLangChanges == 1   \* changes of the language selector
MaxMic == 1           \* microphone toggles
MaxRecEvents == 1     \* recognizer errors and spontaneous ends
MaxReplies == 6       \* translation requests that are answered

----------------------------------------------------------------------------
(* Strings *)

Space == " "

CharAt(s, i) == SubSeq(s, i, i)

\* the words joined by single spaces
RECURSIVE Join(_)
Join(ws) ==
    IF ws = <<>> THEN ""
    ELSE IF Len(ws) = 1 THEN ws[1]
    ELSE ws[1] \o Space \o Join(Tail(ws))

RECURSIVE Repeat(_, _)
Repeat(w, n) == IF n = 0 THEN <<>> ELSE <<w>> \o Repeat(w, n - 1)

\* String.prototype.toLowerCase, on the letters that occur in the inputs
LowerChar(c) ==
    CASE c = "L" -> "l"
      [] c = "H" -> "h"
      [] c = "O" -> "o"
      [] OTHER -> c

RECURSIVE ToLowerCase(_)
ToLowerCase(s) ==
    IF Len(s) = 0 THEN ""
    ELSE IF Len(s) = 1 THEN LowerChar(s)
    ELSE LET half == Len(s) \div 2
         IN  ToLowerCase(SubSeq(s, 1, half)) \o ToLowerCase(SubSeq(s, half + 1, Len(s)))

\* the character class of .replace(/[.,!?;:'"()]/g, "")
Punctuation == {".", ",", "!", "?", ";", ":", "'", "\"", "(", ")"}

RECURSIVE StripPunctuation(_)
StripPunctuation(s) ==
    IF Len(s) = 0 THEN ""
    ELSE IF Len(s) = 1 THEN (IF s \in Punctuation THEN "" ELSE s)
    ELSE LET half == Len(s) \div 2
         IN  StripPunctuation(SubSeq(s, 1, half))
                \o StripPunctuation(SubSeq(s, half + 1, Len(s)))

\* .split(/\s+/): the maximal runs of non-whitespace, in order; whitespace at
\* the start or at the end of the string leaves an empty piece there
PieceStarts(s) ==
    {i \in 1..Len(s) : CharAt(s, i) # Space /\ (i = 1 \/ CharAt(s, i - 1) = Space)}

PieceEnd(s, i) ==
    CHOOSE j \in i..Len(s) :
        /\ \A k \in i..j : CharAt(s, k) # Space
        /\ j = Len(s) \/ CharAt(s, j + 1) = Space

SplitWhitespace(s) ==
    LET starts == PieceStarts(s)
        nth(n) == CHOOSE i \in starts : Cardinality({j \in starts : j < i}) = n - 1
        pieces == [n \in 1..Cardinality(starts) |-> SubSeq(s, nth(n), PieceEnd(s, nth(n)))]
        lead == IF s = "" \/ CharAt(s, 1) = Space THEN <<"">> ELSE <<>>
        trail == IF s # "" /\ CharAt(s, Len(s)) = Space THEN <<"">> ELSE <<>>
    IN  lead \o pieces \o trail

\* String.prototype.includes
Includes(s, k) ==
    \E i \in 1..(Len(s) - Len(k) + 1) : SubSeq(s, i, i + Len(k) - 1) = k

\* text.slice(-n)
SliceLast(s, n) == IF Len(s) > n THEN SubSeq(s, Len(s) - n + 1, Len(s)) ELSE s

----------------------------------------------------------------------------
(* Static dictionaries (window.EMOJI_DICT, POSITIVE_WORDS, NEGATIVE_WORDS) *)

\* Object.keys(window.EMOJI_DICT), in insertion order
EMOJI_KEYS == <<"feuer", "liebe", "gute nacht">>

\* window.EMOJI_DICT[key]; "" stands for undefined
EMOJI_DICT(key) ==
    CASE key = "feuer" -> "fire"
      [] key = "liebe" -> "heart"
      [] key = "gute nacht" -> "moon"
      [] OTHER -> ""

POSITIVE_WORDS == {"liebe"}
NEGATIVE_WORDS == {"hass"}

----------------------------------------------------------------------------
(* Finalized texts the recognizer delivers *)

T_liebe == " Liebe!"
T_hass == " das Hass"
T_nacht == " gute nacht"
\* a long utterance: it fills the pool to the cap and goes on
T_burst ==
    " gute nacht " \o Join(Repeat("feuer", MAX_EMOJIS - 3)) \o " Hass feuer"

\* a text the scanner finds nothing in
T_ja == " ja"

\* texts that move the sentiment by +3 and by -3
T_love3 == " Liebe, liebe Liebe!"
T_hate3 == " Hass hass hass"

\* a text of more than TRIM_LENGTH characters the scanner finds nothing in
T_long == Space \o Join(Repeat("ja", 67))

ShortTexts == {T_liebe, T_hass, T_nacht}
LongTexts == {T_long}
MoodTexts == {T_love3, T_hate3, T_hass}
PlainTexts == {T_ja}
BurstTexts == {T_burst}

----------------------------------------------------------------------------
(* Timers: setTimeout / clearTimeout *)

Timer(kind, span, text, handle, delay) ==
    [kind |-> kind, span |-> span, text |-> text, handle |-> handle, rem |-> delay]

\* setTimeout: the callback runs after every pending one that expires no later
SetTimeout(ts, t) ==
    LET n == Cardinality({i \in 1..Len(ts) : ts[i].rem <= t.rem})
    IN  SubSeq(ts, 1, n) \o <<t>> \o SubSeq(ts, n + 1, Len(ts))

\* clearTimeout(translateTimer): drops the debounce timer with that handle, if pending
ClearTimeout(ts, handle) ==
    SelectSeq(ts, LAMBDA t : ~(t.kind = "translate" /\ t.handle = handle))

\* the timers once the head has been taken off to run
Rest == Tail(timers)

Due(kind) == timers # <<>> /\ timers[1].rem = 0 /\ timers[1].kind = kind

\* no callback is running and no timer has expired: the event loop takes the
\* next input event
Ready == pc = "idle" /\ ~(timers # <<>> /\ timers[1].rem = 0)

----------------------------------------------------------------------------
(* Particles *)

Particle(id, kind, content) ==
    [id |-> id, kind |-> kind, content |-> content,
     floating |-> FALSE, fading |-> FALSE]

\* span.parentNode is non-null
Attached(z, id) == \E i \in 1..Len(z) : z[i].id = id

IndexOf(z, id) == CHOOSE i \in 1..Len(z) : z[i].id = id

\* span.remove()
Detach(z, id) == SelectSeq(z, LAMBDA p : p.id # id)

NoSpawn == [kind |-> "none", added |-> 0, evicted |-> 0, before |-> 0]

NoTimer == [kind |-> "none", span |-> 0, attached |-> FALSE]

\* the head of the timer queue, as the record of the callback that runs
Running == [kind |-> timers[1].kind, span |-> timers[1].span,
            attached |-> Attached(zone, timers[1].span)]

----------------------------------------------------------------------------
(* EMOJI MAPPER: particles *)

\* a removeOldestEmoji that takes the last child instead of the first
RemoveNewestEmoji(z, count) ==
    IF z # <<>>
    THEN [zone |-> SubSeq(z, 1, Len(z) - 1), count |-> count - 1, evicted |-> z[Len(z)].id]
    ELSE [zone |-> z, count |-> count, evicted |-> 0]

\* removeOldestEmoji: emojiZone.querySelector(".emoji-particle") is the first
\* child, as every child of the zone carries that class
RemoveOldestEmoji(z, count) ==
    IF z # <<>>
    THEN [zone |-> Tail(z), count |-> count - 1, evicted |-> z[1].id]
    ELSE [zone |-> z, count |-> count, evicted |-> 0]

\* an addEmojiParticle without the cap test
AddEmojiParticleUncapped(emoji) ==
    LET id == nextSpan + 1
    IN  /\ zone' = Append(zone, Particle(id, "emoji", emoji))
        /\ emojiCount' = emojiCount + 1
        /\ nextSpan' = id
        /\ timers' = SetTimeout(
                        SetTimeout(timers, Timer("float", id, "", 0, FLOAT_AFTER)),
                        Timer("fade", id, "", 0, EMOJI_FADE_AFTER))
        /\ lastSpawn' = [kind |-> "emoji", added |-> id,
                         evicted |-> 0, before |-> emojiCount]

AddEmojiParticle(emoji) ==
    LET pool == IF emojiCount >= MAX_EMOJIS
                THEN RemoveOldestEmoji(zone, emojiCount)
                ELSE [zone |-> zone, count |-> emojiCount, evicted |-> 0]
        id == nextSpan + 1
    IN  /\ zone' = Append(pool.zone, Particle(id, "emoji", emoji))
        /\ emojiCount' = pool.count + 1
        /\ nextSpan' = id
        /\ timers' = SetTimeout(
                        SetTimeout(timers, Timer("float", id, "", 0, FLOAT_AFTER)),
                        Timer("fade", id, "", 0, EMOJI_FADE_AFTER))
        /\ lastSpawn' = [kind |-> "emoji", added |-> id,
                         evicted |-> pool.evicted, before |-> emojiCount]

\* an addTextParticle that evicts at the cap, as addEmojiParticle does
AddTextParticleEvicting(word) ==
    LET pool == IF emojiCount >= MAX_EMOJIS
                THEN RemoveOldestEmoji(zone, emojiCount)
                ELSE [zone |-> zone, count |-> emojiCount, evicted |-> 0]
        id == nextSpan + 1
    IN  /\ zone' = Append(pool.zone, Particle(id, "text", word))
        /\ emojiCount' = pool.count + 1
        /\ nextSpan' = id
        /\ timers' = SetTimeout(timers,
                                Timer("textfade", id, "", 0, TEXT_FADE_AFTER))
        /\ lastSpawn' = [kind |-> "text", added |-> id,
                         evicted |-> pool.evicted, before |-> emojiCount]

\* an addTextParticle that does not count its span
AddTextParticleUncounted(word) ==
    IF emojiCount >= MAX_EMOJIS
    THEN /\ lastSpawn' = [kind |-> "text", added |-> 0,
                          evicted |-> 0, before |-> emojiCount]
         /\ UNCHANGED <<zone, emojiCount, nextSpan, timers>>
    ELSE LET id == nextSpan + 1
         IN  /\ zone' = Append(zone, Particle(id, "text", word))
             /\ emojiCount' = emojiCount
             /\ nextSpan' = id
             /\ timers' = SetTimeout(timers,
                                     Timer("textfade", id, "", 0, TEXT_FADE_AFTER))
             /\ lastSpawn' = [kind |-> "text", added |-> id,
                              evicted |-> 0, before |-> emojiCount]

AddTextParticle(word) ==
    IF emojiCount >= MAX_EMOJIS
    THEN /\ lastSpawn' = [kind |-> "text", added |-> 0,
                          evicted |-> 0, before |-> emojiCount]
         /\ UNCHANGED <<zone, emojiCount, nextSpan, timers>>
    ELSE LET id == nextSpan + 1
         IN  /\ zone' = Append(zone, Particle(id, "text", word))
             /\ emojiCount' = emojiCount + 1
             /\ nextSpan' = id
             /\ timers' = SetTimeout(timers,
                                     Timer("textfade", id, "", 0, TEXT_FADE_AFTER))
             /\ lastSpawn' = [kind |-> "text", added |-> id,
                              evicted |-> 0, before |-> emojiCount]

\* an updateMood with the thresholds one too low
UpdateMoodAtTwo(pos, neg) ==
    LET diff == pos - neg
    IN  IF diff >= 2 THEN {"mood-positive"}
        ELSE IF diff <= -2 THEN {"mood-negative"}
        ELSE {}

\* updateMood
UpdateMood(pos, neg) ==
    LET diff == pos - neg
    IN  IF diff > 2 THEN {"mood-positive"}
        ELSE IF diff < -2 THEN {"mood-negative"}
        ELSE {}

\* a tokenizer that keeps only the first occurrence of every token
WordsDeduplicated(text) ==
    LET ws == SelectSeq(SplitWhitespace(StripPunctuation(ToLowerCase(text))),
                        LAMBDA w : Len(w) > 1)
        first == {i \in 1..Len(ws) : \A j \in 1..(i - 1) : ws[j] # ws[i]}
        nth[k \in 1..Cardinality(first)] ==
            CHOOSE i \in first : Cardinality({j \in first : j < i}) = k - 1
    IN  [k \in 1..Cardinality(first) |-> ws[nth[k]]]

\* the tokens of processWordsForEmoji
Words(text) ==
    SelectSeq(SplitWhitespace(StripPunctuation(ToLowerCase(text))),
              LAMBDA w : Len(w) > 1)

\* the phrase keys whose test lowerText.includes(combo) succeeds, in key order
Combos(text) ==
    SelectSeq(EMOJI_KEYS,
              LAMBDA k : Includes(k, Space) /\ Includes(ToLowerCase(text), k))

\* both, for every text the recognizer delivers (evaluated once)
Scanned ==
    [t \in ShortTexts \cup PlainTexts \cup MoodTexts \cup LongTexts \cup BurstTexts |->
        [combos |-> Combos(t), words |-> Words(t)]]

----------------------------------------------------------------------------
(* TRANSLATION *)

NoText == [q |-> "", from |-> "", to |-> ""]

\* responseData.translatedText of a successful request
Translated(q, from, to) == [q |-> q, from |-> from, to |-> to]

NoCard == [present |-> FALSE, attached |-> FALSE, text |-> NoText]

TargetLangs(src) == SelectSeq(ALL_LANGS, LAMBDA l : l # src)

InSeq(x, s) == \E i \in 1..Len(s) : s[i] = x

\* an updateTranslationCards that appends the new cards without emptying the zone
UpdateTranslationCardsAppending(cards, src) ==
    [l \in LangSet |->
        IF l # src
        THEN [present |-> TRUE, attached |-> TRUE, text |-> NoText]
        ELSE cards[l]]

\* updateTranslationCards: the zone is emptied and gets a fresh card per target
\* language; the entry of the source language keeps its element, now detached
UpdateTranslationCards(cards, src) ==
    [l \in LangSet |->
        IF l # src
        THEN [present |-> TRUE, attached |-> TRUE, text |-> NoText]
        ELSE [cards[l] EXCEPT !.attached = FALSE]]

\* a scheduleTranslation without its clearTimeout
ScheduleTranslationNoCancel(ts, text) ==
    SetTimeout(ts, Timer("translate", 0, text, nextHandle + 1, TRANSLATE_DEBOUNCE_MS))

\* scheduleTranslation: the timers and the handle after the call
ScheduleTranslation(ts, text) ==
    SetTimeout(ClearTimeout(ts, translateTimer),
               Timer("translate", 0, text, nextHandle + 1, TRANSLATE_DEBOUNCE_MS))

\* a translateAll that cuts the text to its first characters
TranslateAllFirstChars(text) ==
    LET targetLangs == TargetLangs(sourceLang)
        trimmed == IF Len(text) > TRIM_LENGTH THEN SubSeq(text, 1, TRIM_LENGTH) ELSE text
    IN  [text |-> text, trimmed |-> trimmed, from |-> sourceLang,
         targetLangs |-> targetLangs,
         results |-> [l \in LangSet |->
                        IF InSeq(l, targetLangs)
                        THEN [status |-> "pending", value |-> NoText]
                        ELSE [status |-> "none", value |-> NoText]]]

\* translateAll up to its await: one pending request per target language
TranslateAll(text) ==
    LET targetLangs == TargetLangs(sourceLang)
        trimmed == IF Len(text) > TRIM_LENGTH THEN SliceLast(text, TRIM_LENGTH) ELSE text
    IN  [text |-> text, trimmed |-> trimmed, from |-> sourceLang,
         targetLangs |-> targetLangs,
         results |-> [l \in LangSet |->
                        IF InSeq(l, targetLangs)
                        THEN [status |-> "pending", value |-> NoText]
                        ELSE [status |-> "none", value |-> NoText]]]

\* translateText: what the promise settles to for an outcome of the fetch
TranslateText(text, from, to, outcome) ==
    IF outcome = "ok"
    THEN [status |-> "fulfilled", value |-> Translated(text, from, to)]
    ELSE [status |-> "fulfilled", value |-> NoText]

\* outcomes of the fetch: a translation, an empty translatedText, a response
\* without the expected fields or status, an HTTP or network error
Outcomes == {"ok", "empty", "malformed", "error"}

Settled(b) == \A l \in LangSet : b.results[l].status # "pending"

\* a loop over the results that gives up at the first target without a
\* translation
WriteResultsUntilFailure(cards, b) ==
    [l \in LangSet |->
        IF /\ InSeq(l, b.targetLangs)
           /\ cards[l].present
           /\ \A k \in 1..Len(b.targetLangs) :
                 (\E m \in k..Len(b.targetLangs) : b.targetLangs[m] = l)
                    => /\ b.results[b.targetLangs[k]].status = "fulfilled"
                       /\ b.results[b.targetLangs[k]].value # NoText
        THEN [cards[l] EXCEPT !.text = b.results[l].value]
        ELSE cards[l]]

\* results.forEach of translateAll
WriteResults(cards, b) ==
    [l \in LangSet |->
        IF /\ InSeq(l, b.targetLangs)
           /\ cards[l].present
           /\ b.results[l].status = "fulfilled"
           /\ b.results[l].value # NoText
        THEN [cards[l] EXCEPT !.text = b.results[l].value]
        ELSE cards[l]]

----------------------------------------------------------------------------
(* INIT: the state once init() has run in a browser with speech recognition *)

Started ==
    /\ isListening = FALSE
    /\ sourceLang = "de"
    /\ langSelect = "de"
    /\ recState = "idle"
    /\ recLang = ""
    /\ recRunLang = ""
    /\ finalTranscript = ""
    /\ lastTranslatedText = ""
    /\ translateTimer = 0
    /\ emojiCount = 0
    /\ positiveScore = 0
    /\ negativeScore = 0
    /\ zone = <<>>
    /\ zoneClasses = {}
    /\ translationCards = UpdateTranslationCards([l \in LangSet |-> NoCard], "de")
    /\ timers = <<>>
    /\ nextSpan = 0
    /\ nextHandle = 0
    /\ batches = <<>>
    /\ pc = "idle"
    /\ scanCombos = <<>>
    /\ scanWords = <<>>
    /\ lastSpawn = NoSpawn
    /\ lastTimer = NoTimer

----------------------------------------------------------------------------
(* SPEECH RECOGNITION *)

\* recognition.start(): throws InvalidStateError unless the recognizer is idle
StartListening ==
    /\ sourceLang' = langSelect
    /\ recLang' = LANG_CONFIG[langSelect].speech
    /\ IF recState = "idle"
       THEN /\ recState' = "running"
            /\ recRunLang' = LANG_CONFIG[langSelect].speech
            /\ isListening' = TRUE
            /\ translationCards' = UpdateTranslationCards(translationCards, langSelect)
       ELSE UNCHANGED <<recState, recRunLang, isListening, translationCards>>

\* recognition.stop(): the session ends later, with an end event
RecognitionStop(st) == IF st = "running" THEN "stopping" ELSE st

StopListening ==
    /\ recState' = RecognitionStop(recState)
    /\ isListening' = FALSE
    /\ UNCHANGED <<recLang, recRunLang>>

\* click on the microphone button, or the Space key
ToggleMic ==
    /\ Ready
    /\ budget.mic > 0
    /\ budget' = [budget EXCEPT !.mic = @ - 1]
    /\ IF isListening
       THEN StopListening /\ UNCHANGED <<sourceLang, translationCards>>
       ELSE StartListening
    /\ UNCHANGED <<langSelect, textVars, moodVars, partVars, timers, batches,
                   scanVars, logVars>>

\* the Escape key
KeyEscape ==
    /\ Ready
    /\ budget.mic > 0
    /\ isListening
    /\ budget' = [budget EXCEPT !.mic = @ - 1]
    /\ StopListening
    /\ UNCHANGED <<langVars, translationCards, textVars, moodVars, partVars, timers,
                   batches, scanVars, logVars>>

\* handleResult with finalized text: the part before the word loop
HandleResult(newFinalText) ==
    /\ Ready
    /\ recState \in {"running", "stopping"}
    /\ finalTranscript' = finalTranscript \o newFinalText
    /\ pc' = "scan"
    /\ scanCombos' = Scanned[newFinalText].combos
    /\ scanWords' = Scanned[newFinalText].words
    /\ UNCHANGED <<recVars, langVars, lastTranslatedText, translateTimer, nextHandle,
                   moodVars, partVars, translationCards, timers, batches, logVars>>

ShortResult ==
    \E t \in budget.texts :
        /\ budget.results > 0
        /\ budget' = [budget EXCEPT !.results = @ - 1]
        /\ HandleResult(t)

\* a text that is delivered at most once
BurstResult ==
    \E t \in budget.bursts :
        /\ budget' = [budget EXCEPT !.bursts = @ \ {t}]
        /\ HandleResult(t)

\* processWordsForEmoji: one iteration of the loop over the phrase keys
ScanCombo ==
    /\ pc = "scan"
    /\ scanCombos # <<>>
    /\ AddEmojiParticle(EMOJI_DICT(Head(scanCombos)))
    /\ scanCombos' = Tail(scanCombos)
    /\ UNCHANGED <<recVars, langVars, textVars, moodVars, translationCards, batches,
                   pc, scanWords, lastTimer, budget>>

\* processWordsForEmoji: one iteration of the loop over the words
ScanWord ==
    /\ pc = "scan"
    /\ scanCombos = <<>>
    /\ scanWords # <<>>
    /\ LET word == Head(scanWords)
           emoji == EMOJI_DICT(word)
       IN  /\ positiveScore' = IF word \in POSITIVE_WORDS
                               THEN positiveScore + 1 ELSE positiveScore
           /\ negativeScore' = IF word \in NEGATIVE_WORDS
                               THEN negativeScore + 1 ELSE negativeScore
           /\ IF emoji # ""
              THEN AddEmojiParticle(emoji)
              ELSE IF Len(word) > 3
                   THEN AddTextParticle(word)
                   ELSE UNCHANGED <<partVars, timers, lastSpawn>>
    /\ scanWords' = Tail(scanWords)
    /\ UNCHANGED <<recVars, langVars, textVars, zoneClasses, translationCards, batches,
                   pc, scanCombos, lastTimer, budget>>

\* the end of processWordsForEmoji (updateMood) and of handleResult
\* (scheduleTranslation(finalTranscript))
ScanEnd ==
    /\ pc = "scan"
    /\ scanCombos = <<>>
    /\ scanWords = <<>>
    /\ zoneClasses' = UpdateMood(positiveScore, negativeScore)
    /\ timers' = ScheduleTranslation(timers, finalTranscript)
    /\ translateTimer' = nextHandle + 1
    /\ nextHandle' = nextHandle + 1
    /\ pc' = "idle"
    /\ UNCHANGED <<recVars, langVars, finalTranscript, lastTranslatedText,
                   positiveScore, negativeScore, partVars, translationCards, batches,
                   scanCombos, scanWords, logVars, budget>>

ErrorKinds == {"not-allowed", "no-speech", "network"}

\* a handleError that goes on listening after every error
HandleErrorKeepsListening(error) ==
    /\ Ready
    /\ recState = "running"
    /\ budget.rec > 0
    /\ budget' = [budget EXCEPT !.rec = @ - 1]
    /\ recState' = "stopping"
    /\ UNCHANGED <<isListening, recLang, recRunLang, langVars, textVars, moodVars,
                   partVars, translationCards, timers, batches, scanVars, logVars>>

\* handleError; the recognizer ends the session after an error
HandleError(error) ==
    /\ Ready
    /\ recState = "running"
    /\ budget.rec > 0
    /\ budget' = [budget EXCEPT !.rec = @ - 1]
    /\ IF error = "not-allowed"
       THEN StopListening
       ELSE recState' = "stopping" /\ UNCHANGED <<isListening, recLang, recRunLang>>
    /\ UNCHANGED <<langVars, textVars, moodVars, partVars,
                   translationCards, timers, batches, scanVars, logVars>>

\* handleEnd, run by the end event of a session
HandleEnd ==
    /\ Ready
    /\ \/ recState = "stopping" /\ UNCHANGED budget
       \/ recState = "running" /\ budget.rec > 0
                               /\ budget' = [budget EXCEPT !.rec = @ - 1]
    /\ IF isListening
       THEN recState' = "running" /\ recRunLang' = recLang
       ELSE recState' = "idle" /\ recRunLang' = ""
    /\ UNCHANGED <<isListening, recLang, langVars, textVars, moodVars, partVars,
                   translationCards, timers, batches, scanVars, logVars>>

\* a clearEmojis that forgets the negative score
ClearEmojisKeepsNegative ==
    /\ zone' = <<>>
    /\ emojiCount' = 0
    /\ positiveScore' = 0
    /\ negativeScore' = negativeScore
    /\ zoneClasses' = zoneClasses \ {"mood-positive", "mood-negative"}

\* clearEmojis: what it leaves of the pool, the counters and the mood classes
ClearEmojis ==
    /\ zone' = <<>>
    /\ emojiCount' = 0
    /\ positiveScore' = 0
    /\ negativeScore' = 0
    /\ zoneClasses' = zoneClasses \ {"mood-positive", "mood-negative"}

\* handleLangChange, run by the change event of the language selector
HandleLangChange(lang) ==
    /\ Ready
    /\ budget.langs > 0
    /\ lang # langSelect
    /\ budget' = [budget EXCEPT !.langs = @ - 1]
    /\ langSelect' = lang
    /\ recState' = IF isListening THEN RecognitionStop(recState) ELSE recState
    /\ sourceLang' = lang
    /\ translationCards' = UpdateTranslationCards(translationCards, lang)
    /\ finalTranscript' = ""
    /\ lastTranslatedText' = ""
    /\ ClearEmojis
    /\ timers' = IF isListening
                 THEN SetTimeout(timers, Timer("restart", 0, "", 0, RESTART_AFTER))
                 ELSE timers
    /\ UNCHANGED <<isListening, recLang, recRunLang, translateTimer, nextHandle,
                   nextSpan, batches, scanVars, logVars>>

\* the C key of the keydown handler
KeyC ==
    /\ Ready
    /\ budget.clears > 0
    /\ budget' = [budget EXCEPT !.clears = @ - 1]
    /\ finalTranscript' = ""
    /\ lastTranslatedText' = ""
    /\ ClearEmojis
    /\ translationCards' =
          [l \in LangSet |->
              IF translationCards[l].present
              THEN [translationCards[l] EXCEPT !.text = NoText]
              ELSE translationCards[l]]
    /\ UNCHANGED <<recVars, langVars, translateTimer, nextHandle, nextSpan, timers,
                   batches, scanVars, logVars>>

----------------------------------------------------------------------------
(* Timer callbacks *)

\* time passes until the next timer expires
Advance ==
    /\ pc = "idle"
    /\ timers # <<>>
    /\ timers[1].rem > 0
    /\ timers' = [i \in 1..Len(timers) |->
                    [timers[i] EXCEPT !.rem = @ - timers[1].rem]]
    /\ UNCHANGED <<recVars, langVars, textVars, moodVars, partVars, translationCards,
                   batches, scanVars, logVars, budget>>

\* addEmojiParticle: the callback that switches the span to "floating"
FloatCallback(z, id) ==
    IF Attached(z, id)
    THEN [z EXCEPT ![IndexOf(z, id)].floating = TRUE]
    ELSE z

FloatTimer ==
    /\ pc = "idle"
    /\ Due("float")
    /\ zone' = FloatCallback(zone, timers[1].span)
    /\ timers' = Rest
    /\ lastTimer' = Running
    /\ UNCHANGED <<recVars, langVars, textVars, moodVars, emojiCount, nextSpan,
                   translationCards, batches, scanVars, lastSpawn, budget>>

\* a fade callback that marks the span but never schedules its removal
FadeCallbackNoRemoval(z, ts, id) ==
    IF Attached(z, id)
    THEN [zone |-> [z EXCEPT ![IndexOf(z, id)].floating = FALSE,
                             ![IndexOf(z, id)].fading = TRUE],
          timers |-> ts]
    ELSE [zone |-> z, timers |-> ts]

\* addEmojiParticle: the callback that starts the fade of an emoji particle;
\* ts are the timers still pending
FadeCallback(z, ts, id) ==
    IF Attached(z, id)
    THEN [zone |-> [z EXCEPT ![IndexOf(z, id)].floating = FALSE,
                             ![IndexOf(z, id)].fading = TRUE],
          timers |-> SetTimeout(ts, Timer("remove", id, "", 0, FADE_DURATION))]
    ELSE [zone |-> z, timers |-> ts]

FadeTimer ==
    /\ pc = "idle"
    /\ Due("fade")
    /\ LET r == FadeCallback(zone, Rest, timers[1].span)
       IN  zone' = r.zone /\ timers' = r.timers
    /\ lastTimer' = Running
    /\ UNCHANGED <<recVars, langVars, textVars, moodVars, emojiCount, nextSpan,
                   translationCards, batches, scanVars, lastSpawn, budget>>

\* a text-particle callback that takes the span out at once
TextFadeCallbackRemoves(z, ts, id) ==
    [zone |-> Detach(z, id), timers |-> ts]

\* addTextParticle: the callback that starts the fade of a text particle
TextFadeCallback(z, ts, id) ==
    IF Attached(z, id)
    THEN [zone |-> [z EXCEPT ![IndexOf(z, id)].fading = TRUE],
          timers |-> SetTimeout(ts, Timer("remove", id, "", 0, FADE_DURATION))]
    ELSE [zone |-> z, timers |-> ts]

TextFadeTimer ==
    /\ pc = "idle"
    /\ Due("textfade")
    /\ LET r == TextFadeCallback(zone, Rest, timers[1].span)
       IN  zone' = r.zone /\ timers' = r.timers
    /\ lastTimer' = Running
    /\ UNCHANGED <<recVars, langVars, textVars, moodVars, emojiCount, nextSpan,
                   translationCards, batches, scanVars, lastSpawn, budget>>

\* the inner callback without its parentNode test
RemoveCallbackUnguarded(z, count, id) ==
    [zone |-> Detach(z, id), count |-> count - 1]

\* the inner callback of both fade timers: span.remove(); emojiCount--
RemoveCallback(z, count, id) ==
    IF Attached(z, id)
    THEN [zone |-> Detach(z, id), count |-> count - 1]
    ELSE [zone |-> z, count |-> count]

RemoveTimer ==
    /\ pc = "idle"
    /\ Due("remove")
    /\ LET r == RemoveCallback(zone, emojiCount, timers[1].span)
       IN  zone' = r.zone /\ emojiCount' = r.count
    /\ timers' = Rest
    /\ lastTimer' = Running
    /\ UNCHANGED <<recVars, langVars, textVars, moodVars, nextSpan,
                   translationCards, batches, scanVars, lastSpawn, budget>>

\* a test that forgets the text dispatched last
ShouldTranslateAnyText(text, last) == text # ""

\* scheduleTranslation: the test of the debounce callback
ShouldTranslate(text, last) == text # "" /\ text # last

\* scheduleTranslation: the debounce callback
TranslateTimer ==
    /\ pc = "idle"
    /\ Due("translate")
    /\ LET text == timers[1].text
       IN  IF ShouldTranslate(text, lastTranslatedText)
           THEN /\ lastTranslatedText' = text
                /\ batches' = Append(batches, TranslateAll(text))
           ELSE UNCHANGED <<lastTranslatedText, batches>>
    /\ timers' = Rest
    /\ UNCHANGED <<recVars, langVars, finalTranscript, translateTimer, nextHandle,
                   moodVars, partVars, translationCards, scanVars, logVars, budget>>

\* handleLangChange: setTimeout(() => startListening(), 200)
RestartTimer ==
    /\ pc = "idle"
    /\ Due("restart")
    /\ StartListening
    /\ timers' = Rest
    /\ UNCHANGED <<langSelect, textVars, moodVars, partVars, batches, scanVars,
                   logVars, budget>>

\* one request of a batch settles; when it is the last one, Promise.allSettled
\* resolves and translateAll writes the slots in the same turn
Reply(i, lang, outcome) ==
    /\ Ready
    /\ budget.replies > 0
    /\ batches[i].results[lang].status = "pending"
    /\ budget' = [budget EXCEPT !.replies = @ - 1]
    /\ LET b == batches[i]
           r == TranslateText(b.trimmed, b.from, lang, outcome)
           done == [b EXCEPT !.results[lang] = r]
       IN  /\ batches' = [batches EXCEPT ![i] = done]
           /\ translationCards' = IF Settled(done)
                                  THEN WriteResults(translationCards, done)
                                  ELSE translationCards
    /\ UNCHANGED <<recVars, langVars, textVars, moodVars, partVars, timers,
                   scanVars, logVars>>

----------------------------------------------------------------------------

(* The particle pool: speech results, the scanner, clears, language changes *)
(* and every timer; translation requests stay unanswered                    *)

Init ==
    /\ Started
    /\ budget = [results |-> MaxResults, texts |-> ShortTexts, bursts |-> BurstTexts,
                 clears |-> MaxClears, langs |-> 0, mic |-> MaxMic, rec |-> 0,
                 replies |-> 0]

Next ==
    \/ ToggleMic
    \/ ShortResult
    \/ BurstResult
    \/ ScanCombo
    \/ ScanWord
    \/ ScanEnd
    \/ KeyC
    \/ Advance
    \/ FloatTimer
    \/ FadeTimer
    \/ TextFadeTimer
    \/ RemoveTimer
    \/ TranslateTimer

Spec == Init /\ [][Next]_vars

----------------------------------------------------------------------------
(* Properties of the particle pool *)

\* a step of the scan that calls addEmojiParticle
EmojiSpawn ==
    \/ ScanCombo
    \/ ScanWord /\ EMOJI_DICT(Head(scanWords)) # ""

\* a step of the scan that calls addTextParticle
TextSpawn ==
    /\ ScanWord
    /\ EMOJI_DICT(Head(scanWords)) = ""
    /\ Len(Head(scanWords)) > 3

IdsOf(z) == {z[i].id : i \in 1..Len(z)}

\* C1: in every reachable state the display collection holds at most
\* MAX_EMOJIS particles, and so does the counter emojiCount.
C1_CountWithinCap == Len(zone) <= MAX_EMOJIS /\ emojiCount <= MAX_EMOJIS

\* a spawn was requested with the pool at the cap, and the pool is full
C1_Witness ==
    /\ lastSpawn.kind # "none"
    /\ lastSpawn.before >= MAX_EMOJIS
    /\ Len(zone) = MAX_EMOJIS

\* C7: an emoji spawn with the count at the cap removes exactly the particle
\* inserted earliest among those present (the first child), keeps every other
\* particle in place, appends the new one and leaves the count at the cap.
C7_FifoEviction ==
    [][(pc = "scan" /\ emojiCount >= MAX_EMOJIS /\ EmojiSpawn)
        => /\ zone # <<>>
           /\ \A i \in 1..Len(zone) : zone[1].id <= zone[i].id
           /\ SubSeq(zone', 1, Len(zone') - 1) = Tail(zone)
           /\ zone'[Len(zone')].id = nextSpan + 1
           /\ zone'[Len(zone')].kind = "emoji"
           /\ zone'[Len(zone')].id \notin IdsOf(zone)
           /\ emojiCount' = MAX_EMOJIS
           /\ Len(zone') = MAX_EMOJIS]_vars

\* an emoji spawn at the cap has just evicted a particle
C7_Witness ==
    /\ lastSpawn.kind = "emoji"
    /\ lastSpawn.before >= MAX_EMOJIS
    /\ lastSpawn.evicted # 0
    /\ lastSpawn.evicted \notin IdsOf(zone)
    /\ zone # <<>>
    /\ zone[Len(zone)].id = lastSpawn.added

StaleTimer ==
    /\ pc = "idle"
    /\ timers # <<>>
    /\ timers[1].rem = 0
    /\ timers[1].kind \in {"float", "fade", "textfade", "remove"}
    /\ ~Attached(zone, timers[1].span)

\* C9: a float, fade-start or fade-end callback that runs for a particle
\* already removed (by eviction or by clearEmojis) changes nothing: the
\* collection and the count stay as they are, no further timer is started, and
\* the count never goes below zero.
C9_StaleTimerNoOp ==
    [][/\ emojiCount >= 0
       /\ (StaleTimer /\ (FloatTimer \/ FadeTimer \/ TextFadeTimer \/ RemoveTimer))
            => /\ UNCHANGED <<zone, emojiCount, nextSpan, moodVars>>
               /\ timers' = Tail(timers)]_vars

\* a fade-end callback has run for a span that had been removed in the meantime
C9_Witness ==
    /\ lastTimer.kind = "remove"
    /\ ~lastTimer.attached
    /\ emojiCount = Len(zone)

----------------------------------------------------------------------------
(* Progress: the event loop runs every expired timer, time passes, and a     *)
(* handler that has started runs to its end                                  *)

TimerStep ==
    \/ Advance
    \/ FloatTimer
    \/ FadeTimer
    \/ TextFadeTimer
    \/ RemoveTimer
    \/ TranslateTimer

ScanStep == ScanCombo \/ ScanWord \/ ScanEnd

\* a session in which the long utterance is all that is said
InitLong ==
    /\ Started
    /\ budget = [results |-> 0, texts |-> {}, bursts |-> BurstTexts,
                 clears |-> MaxClears, langs |-> 0, mic |-> MaxMic, rec |-> 0,
                 replies |-> 0]

NextLong ==
    \/ ToggleMic
    \/ BurstResult
    \/ ScanStep
    \/ KeyC
    \/ TimerStep

FairSpec ==
    InitLong /\ [][NextLong]_vars /\ WF_vars(TimerStep) /\ WF_vars(ScanStep)

\* C10: provided expired timers run and time passes, no particle stays in the
\* collection forever.  Checked in the stronger form that the collection is
\* empty again and again: every span that is in it at some point is out of it
\* later (by its own fade timers, by eviction or by clearEmojis), and a span
\* never comes back.
C10_EveryParticleRemoved == []<>(zone = <<>>)

\* a particle has been taken out by its own fade-end callback
C10_Witness ==
    /\ lastTimer.kind = "remove"
    /\ lastTimer.attached
    /\ lastTimer.span \notin IdsOf(zone)
    /\ nextSpan >= lastTimer.span

----------------------------------------------------------------------------
(* The translation dispatcher: short utterances, the debounce timer, clears, *)
(* language changes with the restart of the recognizer, and the replies of   *)
(* the translation service in any order.  The utterances of these sessions   *)
(* hold no phrase key and no word that spawns a particle, so the pool stays  *)
(* empty and none of its timers exists                                       *)

InitTranslate ==
    /\ Started
    /\ budget = [results |-> MaxPlain, texts |-> PlainTexts, bursts |-> {},
                 clears |-> MaxClears, langs |-> MaxLangChanges, mic |-> MaxMic,
                 rec |-> 0, replies |-> MaxReplies]

NextTranslate ==
    \/ ToggleMic
    \/ ShortResult
    \/ ScanWord
    \/ ScanEnd
    \/ HandleEnd
    \/ \E lang \in LangSet : HandleLangChange(lang)
    \/ KeyC
    \/ Advance
    \/ TranslateTimer
    \/ RestartTimer
    \/ \E i \in 1..Len(batches), lang \in LangSet, outcome \in Outcomes :
          Reply(i, lang, outcome)

SpecTranslate == InitTranslate /\ [][NextTranslate]_vars

PendingTranslate(ts) == \E k \in 1..Len(ts) : ts[k].kind = "translate"

\* C2: every expiry of a debounce timer closes a window of scheduleTranslation
\* calls: the timer is the one of the last call, no other debounce timer is
\* pending, and exactly one batch is dispatched, with the text of that call
C2_OneBatchPerWindow ==
    [][TranslateTimer =>
          /\ timers[1].handle = translateTimer
          /\ ~PendingTranslate(Rest)
          /\ batches' = Append(batches, TranslateAll(timers[1].text))]_vars

\* C3 as stated: no batch has the text of the batch dispatched just before it
C3_NeverSameAsPrevious ==
    \A i \in 1..(Len(batches) - 1) : batches[i + 1].text # batches[i].text

\* C3: a dispatched batch has a non-empty text that differs from
\* lastTranslatedText as it is when the timer expires, and lastTranslatedText
\* is either empty (nothing dispatched yet, or a reset since) or the text of
\* the batch dispatched last
C3_NoRepeatSinceReset ==
    /\ [](lastTranslatedText # "" =>
            /\ batches # <<>>
            /\ batches[Len(batches)].text = lastTranslatedText)
    /\ [][Len(batches') > Len(batches) =>
            LET b == batches'[Len(batches')]
            IN  /\ Len(batches') = Len(batches) + 1
                /\ b.text # ""
                /\ b.text # lastTranslatedText
                /\ lastTranslatedText' = b.text]_vars

\* the same text has been dispatched twice in a row, a reset in between
C3_Witness ==
    /\ Len(batches) >= 2
    /\ batches[Len(batches)].text = batches[Len(batches) - 1].text
    /\ lastTranslatedText = batches[Len(batches)].text

\* C4: once two batches have settled, no slot shows the translation of the older
\* one where the newer one has a different translation for that target
C4_NoStaleOverwrite ==
    \A i, j \in 1..Len(batches) :
        (i < j /\ Settled(batches[i]) /\ Settled(batches[j])) =>
            \A l \in LangSet :
                LET old == batches[i].results[l].value
                    new == batches[j].results[l].value
                IN  (new # NoText /\ old # NoText /\ old # new)
                        => translationCards[l].text # old

\* C5: after a reset no batch is dispatched for text scheduled before it:
\* while the transcript is empty, lastTranslatedText is empty too
C5_ResetCancelsTimer == finalTranscript = "" => lastTranslatedText = ""

\* C6: every reply settles its request as fulfilled, with a translation exactly
\* for the outcome "ok"; the slots change only in the step that settles the
\* last request of a batch, and then the slot of every target with a translation
\* shows it and every other slot is as it was
C6_SlotsFollowOutcomes ==
    [][\A i \in 1..Len(batches), lang \in LangSet, outcome \in Outcomes :
          Reply(i, lang, outcome) =>
              LET b == batches'[i]
              IN  /\ b.results[lang].status = "fulfilled"
                  /\ (b.results[lang].value # NoText) <=> (outcome = "ok")
                  /\ outcome = "ok" =>
                        b.results[lang].value = Translated(b.trimmed, b.from, lang)
                  /\ \A l \in LangSet \ {lang} : b.results[l] = batches[i].results[l]
                  /\ \A l \in LangSet :
                        translationCards'[l] =
                           IF /\ Settled(b)
                              /\ InSeq(l, b.targetLangs)
                              /\ b.results[l].value # NoText
                           THEN [translationCards[l] EXCEPT !.text = b.results[l].value]
                           ELSE translationCards[l]]_vars

\* a batch has settled with a translation for one target and none for another,
\* whose slot still shows what an earlier batch wrote
C6_Witness ==
    \E i, j \in 1..Len(batches) :
        /\ i < j
        /\ Settled(batches[i])
        /\ Settled(batches[j])
        /\ \E l1, l2 \in LangSet :
              /\ batches[j].results[l1].value # NoText
              /\ translationCards[l1].text = batches[j].results[l1].value
              /\ batches[j].results[l2].status = "fulfilled"
              /\ batches[j].results[l2].value = NoText
              /\ batches[i].results[l2].value # NoText
              /\ translationCards[l2].text = batches[i].results[l2].value

----------------------------------------------------------------------------
(* The mood: utterances with several sentiment words, clears and every timer *)

InitMood ==
    /\ Started
    /\ budget = [results |-> MaxMoodResults, texts |-> MoodTexts, bursts |-> {},
                 clears |-> MaxClears, langs |-> 0, mic |-> MaxMic, rec |-> 0,
                 replies |-> 0]

NextMood ==
    \/ ToggleMic
    \/ ShortResult
    \/ ScanWord
    \/ ScanEnd
    \/ KeyC
    \/ Advance
    \/ FloatTimer
    \/ FadeTimer
    \/ TextFadeTimer
    \/ RemoveTimer
    \/ TranslateTimer

SpecMood == InitMood /\ [][NextMood]_vars

\* C11: whenever no scan is running (after every scan and after every clear) the
\* mood classes are a function of the counters: positive exactly when
\* positiveScore - negativeScore > 2, negative exactly when it is < -2, neither
\* otherwise, and never both
C11_MoodFollowsScores ==
    pc = "idle" =>
        /\ ("mood-positive" \in zoneClasses) <=> (positiveScore - negativeScore > 2)
        /\ ("mood-negative" \in zoneClasses) <=> (positiveScore - negativeScore < -2)
        /\ ~({"mood-positive", "mood-negative"} \subseteq zoneClasses)

\* the difference was +3 after a first scan and a second scan has brought it
\* back to +2: the mood is neutral again
C11_Witness ==
    /\ pc = "idle"
    /\ positiveScore = 3
    /\ negativeScore = 1
    /\ zoneClasses = {}
    /\ zone # <<>>
    /\ zone[Len(zone)].kind = "text"
    /\ zone[Len(zone)].id = 4

----------------------------------------------------------------------------
(* The recognizer and the language selector: one utterance with emoji and    *)
(* sentiment words, recognizer errors and ends, changes of the language with *)
(* the delayed restart, and every timer                                      *)

InitLang ==
    /\ Started
    /\ budget = [results |-> MaxResults, texts |-> {T_love3}, bursts |-> {},
                 clears |-> 0, langs |-> MaxLangChanges, mic |-> MaxMic,
                 rec |-> MaxRecEvents, replies |-> 0]

NextLang ==
    \/ ToggleMic
    \/ ShortResult
    \/ ScanWord
    \/ ScanEnd
    \/ \E error \in ErrorKinds : HandleError(error)
    \/ HandleEnd
    \/ \E lang \in LangSet : HandleLangChange(lang)
    \/ Advance
    \/ FloatTimer
    \/ FadeTimer
    \/ RemoveTimer
    \/ TranslateTimer
    \/ RestartTimer

SpecLang == InitLang /\ [][NextLang]_vars

\* C12: the step of handleLangChange ends with an empty transcript, an empty
\* lastTranslatedText, an empty pool with count 0, both scores 0 and no mood
\* class, and the cards in the translation zone are exactly those of the
\* languages other than the new source language
C12_LangChangeResets ==
    [][budget'.langs < budget.langs =>
          /\ sourceLang' = langSelect'
          /\ finalTranscript' = ""
          /\ lastTranslatedText' = ""
          /\ zone' = <<>>
          /\ emojiCount' = 0
          /\ positiveScore' = 0
          /\ negativeScore' = 0
          /\ zoneClasses' \cap {"mood-positive", "mood-negative"} = {}
          /\ {l \in LangSet : translationCards'[l].attached} = LangSet \ {sourceLang'}
          /\ \A l \in LangSet \ {sourceLang'} : translationCards'[l].text = NoText]_vars

\* the language has just been changed while listening, with a batch dispatched
\* and particles of the old language still in the pool before the change
C12_Witness ==
    /\ budget.langs < MaxLangChanges
    /\ \E k \in 1..Len(timers) : timers[k].kind = "restart" /\ timers[k].rem = RESTART_AFTER
    /\ \E k \in 1..Len(timers) : timers[k].kind = "fade" /\ timers[k].rem > 0
    /\ batches # <<>>
    /\ zone = <<>>
    /\ finalTranscript = ""
    /\ sourceLang # "de"
    /\ translationCards["de"].attached

\* C13: a "not-allowed" error sets isListening to FALSE and a "no-speech" error
\* leaves it as it is; handleEnd leaves isListening as it is and starts the
\* recognizer exactly when isListening is TRUE; the recognizer is started by
\* nothing but handleEnd, the microphone toggle and the delayed startListening
\* of a language change, so after "not-allowed" the end event starts nothing
C13_ErrorsFollowTaxonomy ==
    [][/\ HandleError("not-allowed") => ~isListening'
       /\ HandleError("no-speech") => isListening' = isListening
       /\ HandleEnd =>
             /\ isListening' = isListening
             /\ (recState' = "running") <=> isListening
             /\ (recState' = "idle") <=> ~isListening
       /\ (recState # "running" /\ recState' = "running") =>
             (HandleEnd \/ ToggleMic \/ RestartTimer)]_vars

\* the session has ended after a "not-allowed" error and has not been restarted:
\* the microphone was switched on once and no key or button has switched it off
C13_Witness ==
    /\ budget.mic = MaxMic - 1
    /\ budget.rec < MaxRecEvents
    /\ budget.langs = MaxLangChanges
    /\ ~isListening
    /\ recState = "idle"

\* C20: when the delayed startListening of a language change has run, the
\* recognizer is running with the speech code of the selected language and
\* isListening is TRUE
C20_RestartInNewLanguage ==
    [][RestartTimer =>
          /\ isListening'
          /\ recState' = "running"
          /\ recRunLang' = LANG_CONFIG[langSelect].speech]_vars

Occurrences(w, ws) == Cardinality({i \in 1..Len(ws) : ws[i] = w})

\* C14: in a scan no token is processed before every phrase match has spawned
\* its particle, a phrase match and a token with a dictionary entry each spawn
\* one emoji particle at the end of the pool, in order, and tokens are not
\* de-duplicated: the long utterance, which says "feuer" MAX_EMOJIS - 2 times
\* among its MAX_EMOJIS + 1 tokens, is scanned with that many tokens
C14_PhrasesFirstNoDedup ==
    [][/\ budget'.bursts # budget.bursts =>
             /\ scanCombos' = <<"gute nacht">>
             /\ Len(scanWords') = MAX_EMOJIS + 1
             /\ Occurrences("feuer", scanWords') = MAX_EMOJIS - 2
       /\ (pc = "scan" /\ scanCombos' # scanCombos) =>
             /\ scanCombos' = Tail(scanCombos)
             /\ scanWords' = scanWords
             /\ nextSpan' = nextSpan + 1
             /\ zone'[Len(zone')] =
                   Particle(nextSpan', "emoji", EMOJI_DICT(Head(scanCombos)))
       /\ (pc = "scan" /\ scanWords' # scanWords) =>
             /\ scanCombos = <<>>
             /\ scanWords' = Tail(scanWords)
             /\ EMOJI_DICT(Head(scanWords)) # "" =>
                   /\ nextSpan' = nextSpan + 1
                   /\ zone'[Len(zone')] =
                         Particle(nextSpan', "emoji", EMOJI_DICT(Head(scanWords)))]_vars

\* a scan is under way that has spawned the particle of a phrase first and then
\* two particles for two occurrences of the same word
C14_Witness ==
    /\ pc = "scan"
    /\ Len(zone) >= 5
    /\ zone[1].content = EMOJI_DICT("gute nacht")
    /\ zone[4].content = EMOJI_DICT("feuer")
    /\ zone[5].content = EMOJI_DICT("feuer")
    /\ zone[5].id = zone[4].id + 1
    /\ zone[4].id > zone[1].id

\* C15: the scan of a token adds one to positiveScore exactly when the token is
\* in the positive set and one to negativeScore exactly when it is in the
\* negative set, whether or not a particle is added for it; no other step of a
\* scan changes a score; outside scans the scores change only by both becoming
\* zero, so a score never decreases while the other stays non-zero
C15_ScoresCountTokens ==
    [][/\ (pc = "scan" /\ scanWords' # scanWords) =>
             /\ positiveScore' = positiveScore +
                   (IF Head(scanWords) \in POSITIVE_WORDS THEN 1 ELSE 0)
             /\ negativeScore' = negativeScore +
                   (IF Head(scanWords) \in NEGATIVE_WORDS THEN 1 ELSE 0)
       /\ (pc = "scan" /\ scanWords' = scanWords) =>
             (positiveScore' = positiveScore /\ negativeScore' = negativeScore)
       /\ (pc = "idle" /\ (positiveScore' # positiveScore
                            \/ negativeScore' # negativeScore)) =>
             (positiveScore' = 0 /\ negativeScore' = 0)
       /\ (positiveScore' < positiveScore \/ negativeScore' < negativeScore) =>
             (positiveScore' = 0 /\ negativeScore' = 0)]_vars

\* a negative token has been counted although its text particle was dropped at
\* the cap
C15_Witness ==
    /\ pc = "scan"
    /\ lastSpawn.kind = "text"
    /\ lastSpawn.added = 0
    /\ emojiCount = MAX_EMOJIS
    /\ negativeScore >= 1
    /\ Len(scanWords) = 1

HasTimer(ts, kind, id, rem) ==
    \E k \in 1..Len(ts) : ts[k].kind = kind /\ ts[k].span = id /\ ts[k].rem = rem

TimersOf(ts, id) == {k \in 1..Len(ts) : ts[k].span = id /\ ts[k].kind # "float"}

\* C16: a new particle is active and its only lifecycle timer is the fade start,
\* 30 s ahead for an emoji and 10 s ahead for a text particle; the fade start of
\* a particle still in the pool makes it fading and sets its removal 1 s ahead;
\* the removal callback takes out a particle only if it is fading; a fading
\* particle that stays in the pool stays fading
C16_LifecycleStages ==
    [][/\ nextSpan' # nextSpan =>
             LET p == zone'[Len(zone')]
             IN  /\ p.id = nextSpan'
                 /\ ~p.fading
                 /\ Cardinality(TimersOf(timers', p.id)) = 1
                 /\ IF p.kind = "emoji"
                    THEN HasTimer(timers', "fade", p.id, EMOJI_FADE_AFTER)
                    ELSE HasTimer(timers', "textfade", p.id, TEXT_FADE_AFTER)
       /\ ((FadeTimer \/ TextFadeTimer) /\ Attached(zone, timers[1].span)) =>
             /\ Attached(zone', timers[1].span)
             /\ ~zone[IndexOf(zone, timers[1].span)].fading
             /\ zone'[IndexOf(zone', timers[1].span)].fading
             /\ Cardinality(TimersOf(timers', timers[1].span)) = 1
             /\ HasTimer(timers', "remove", timers[1].span, FADE_DURATION)
       /\ (RemoveTimer /\ Attached(zone, timers[1].span)) =>
             /\ zone[IndexOf(zone, timers[1].span)].fading
             /\ ~Attached(zone', timers[1].span)
             /\ TimersOf(timers', timers[1].span) = {}
       /\ \A i \in 1..Len(zone) :
             (zone[i].fading /\ Attached(zone', zone[i].id)) =>
                 zone'[IndexOf(zone', zone[i].id)].fading]_vars

\* a text particle has just started to fade, its removal 1 s ahead
C16_Witness ==
    \E i \in 1..Len(zone) :
        /\ zone[i].kind = "text"
        /\ zone[i].fading
        /\ HasTimer(timers, "remove", zone[i].id, FADE_DURATION)

----------------------------------------------------------------------------
(* The payload of a batch: a short and a long utterance without emoji        *)
(* content, in any order, and changes of the language with the restart       *)

InitPayload ==
    /\ Started
    /\ budget = [results |-> MaxResults, texts |-> PlainTexts, bursts |-> LongTexts,
                 clears |-> 0, langs |-> MaxLangChanges, mic |-> MaxMic, rec |-> 0,
                 replies |-> 0]

NextPayload ==
    \/ ToggleMic
    \/ ShortResult
    \/ BurstResult
    \/ ScanWord
    \/ ScanEnd
    \/ HandleEnd
    \/ \E lang \in LangSet : HandleLangChange(lang)
    \/ Advance
    \/ TranslateTimer
    \/ RestartTimer

SpecPayload == InitPayload /\ [][NextPayload]_vars

\* C17: the payload of a batch is its text when that has at most 200 characters
\* and else the last 200 characters of it, never more than 200; the batch has
\* one request per configured language other than the source language and
\* none for the source language; and lastTranslatedText is the whole text,
\* the one the expired timer was set with
C17_PayloadAndTargets ==
    /\ [](\A i \in 1..Len(batches) :
            LET b == batches[i]
                n == Len(b.text)
            IN  /\ Len(b.trimmed) <= 200
                /\ n <= 200 => b.trimmed = b.text
                /\ n > 200 => b.trimmed = SubSeq(b.text, n - 199, n)
                /\ Len(b.targetLangs) = Len(ALL_LANGS) - 1
                /\ {b.targetLangs[k] : k \in 1..Len(b.targetLangs)} = LangSet \ {b.from}
                /\ \A l \in LangSet : (b.results[l].status = "none") <=> (l = b.from))
    /\ [][Len(batches') > Len(batches) =>
            LET b == batches'[Len(batches')]
            IN  /\ b.text = timers[1].text
                /\ b.from = sourceLang
                /\ lastTranslatedText' = b.text]_vars

\* a text of more than 200 characters has been dispatched after a change of
\* the source language
C17_Witness ==
    \E i \in 1..Len(batches) :
        /\ Len(batches[i].text) > 200
        /\ Len(batches[i].trimmed) = 200
        /\ batches[i].from # "de"
        /\ lastTranslatedText = batches[i].text

\* C18: at most one debounce timer is pending, and it is the one whose handle
\* translateTimer holds
C18_OneDebounceTimer ==
    /\ Cardinality({k \in 1..Len(timers) : timers[k].kind = "translate"}) <= 1
    /\ \A k \in 1..Len(timers) :
          timers[k].kind = "translate" => timers[k].handle = translateTimer

\* a second scheduleTranslation call has replaced the timer of the first, which
\* was still pending: nothing has been dispatched and the transcript holds both
\* utterances
C18_Witness ==
    /\ translateTimer = 2
    /\ batches = <<>>
    /\ finalTranscript = T_ja \o T_ja
    /\ \E k \in 1..Len(timers) :
          /\ timers[k].kind = "translate"
          /\ timers[k].handle = 2
          /\ timers[k].text = finalTranscript
          /\ timers[k].rem = TRANSLATE_DEBOUNCE_MS

\* C19: emojiCount is the number of spans in the emoji zone, in every state,
\* between the handlers and within a scan
C19_CountMatchesPool == emojiCount = Len(zone)

\* the pool after the eviction of a span at the cap and the removal of another
\* by its own timers
C19_Witness ==
    /\ emojiCount = Len(zone)
    /\ emojiCount > 0
    /\ lastSpawn.evicted # 0
    /\ lastTimer.kind = "remove"
    /\ lastTimer.attached
    /\ lastTimer.span # lastSpawn.evicted

============================================================================
